---- MODULE Spec2Model ----
(***************************************************************************)
(* A model of the Sudoku engine of keesschotanus/sudoku: the 81 cells and  *)
(* their three house views, the pencil-mark (candidate) maintenance, the   *)
(* validator, the deduction techniques, the Combination generator and the  *)
(* back-tracking solver.                                                   *)
(*                                                                         *)
(* Cells are numbered 0..80 in row-major order (cell = 9 * row + col).     *)
(* The candidates of a cell are kept as the code keeps them: an array      *)
(* indexed 0..9 whose entry d is d when d is a candidate and 0 otherwise   *)
(* (entry 0 is always 0).                                                  *)
(***************************************************************************)
EXTENDS Integers, Sequences, FiniteSets, TLC

VARIABLES
  val,               \* Cell.val of every cell (0 = no value)
  candidates,        \* Cell.candidates of every cell (array 0..9)
  solvedCandidates,  \* Cell.solvedCandidates of every cell (digits of the string)
  lastOp,            \* the operation that ran last
  result,            \* what that operation returned
  log,               \* the deductions that operation made, each with the
                     \* candidates of the cells of its house at that moment
  steps,             \* number of calls made on the board so far
  solveState,        \* "Idle", "Searching", "Solved" or "Failed"
  mode,              \* solver: "forward" (select and place) or "backtrack"
  stack,             \* solver: the cells assigned so far, in order
  saved,             \* the values of all cells when solve() was called
  undone,            \* solver: number of placements undone in this call,
                     \* counted up to MaxUndone
  n,                 \* Combination.n (the source elements)
  k,                 \* Combination.k
  pointers,          \* Combination.pointers (array 0..k-1)
  numberOfCombinations,  \* Combination.numberOfCombinations
  yielded,           \* the combinations next() has returned, in order
  combState,         \* "new", "ready", "RangeError" or "Exhausted"
  thrown,            \* number of calls of next() that have thrown an Error
  currentRow,        \* SudokuView.currentRow: the row of the selected cell
  currentCol         \* SudokuView.currentCol: the column of the selected cell

boardVars == <<val, candidates, solvedCandidates>>
solverVars == <<solveState, mode, stack, saved, undone>>
combVars == <<n, k, pointers, numberOfCombinations, yielded, combState, thrown>>
viewVars == <<currentRow, currentCol>>
vars == <<val, candidates, solvedCandidates, lastOp, result, log, steps,
          solveState, mode, stack, saved, undone,
          n, k, pointers, numberOfCombinations, yielded, combState, thrown,
          currentRow, currentCol>>

----------------------------------------------------------------------------
(* Bounds of the model *)

MaxSteps == 3        \* calls on the board (edits and operations) per behaviour
MaxN == 5            \* longest source sequence given to Combination
MaxThrows == 2       \* calls of next() on an exhausted generator per behaviour
MaxUndone == 3       \* placements undone that one call of solve() counts

----------------------------------------------------------------------------
(* The board: cells, houses *)

Size == 9
Cells == 0 .. (Size * Size - 1)
Digits == 1 .. Size
Idx == 0 .. (Size - 1)

\* Cell constructor: row, col and block of a cell
getRow(cell) == cell \div Size
getCol(cell) == cell % Size
getBlock(cell) == (getRow(cell) \div 3) * 3 + (getCol(cell) \div 3)

\* createRowModel / createColumnModel / createBlockModel
rowModel(row, i) == row * Size + i
colModel(col, i) == i * Size + col
\* A block model that stores the 3 x 3 cells column by column
blockModelByColumns(block, i) ==
  ((block \div 3) * 3 + (i % 3)) * Size + ((block % 3) * 3 + (i \div 3))
blockModel(block, i) ==
  ((block \div 3) * 3 + (i \div 3)) * Size + ((block % 3) * 3 + (i % 3))

\* The cells of a house, in house order, as a function on 0..8
House(kind, index) ==
  [i \in Idx |-> CASE kind = "row" -> rowModel(index, i)
                   [] kind = "column" -> colModel(index, i)
                   [] kind = "block" -> blockModel(index, i)]

\* forEachHouse: row i, column i, block i, for i = 0..8
HouseKinds == <<"row", "column", "block">>
HouseSeq == [j \in 1 .. (3 * Size) |->
               <<HouseKinds[((j - 1) % 3) + 1], (j - 1) \div 3>>]

\* The loops of the code are folds below.  Each fold evaluates the state
\* after one iteration before it starts the next one: Evaluated(x) is TRUE,
\* and evaluating it evaluates x.
Evaluated(x) == x = x

\* Cell.resetCandidates: [0, 1, ..., 9]
FullCandidates == [d \in 0 .. Size |-> d]

\* A clearCandidate that sets the entry when it is clear
toggleCandidate(cs, digit) ==
  [cs EXCEPT ![digit] = IF cs[digit] = 0 THEN digit ELSE 0]

\* Cell.clearCandidate / Cell.setCandidate / Cell.isCandidate
clearCandidate(cs, digit) == [cs EXCEPT ![digit] = 0]
setCandidate(cs, digit) == [cs EXCEPT ![digit] = digit]
isCandidate(cs, digit) == cs[digit] = digit

\* Cell.getCandidates: the non-zero entries, in index order
getCandidates(cs) ==
  SelectSeq([i \in 1 .. (Size + 1) |-> cs[i - 1]], LAMBDA x : x # 0)

\* Cell.getNumberOfCandidates: reduce without an initial value starts from
\* entry 0 and counts the non-zero entries among 1..9
RECURSIVE CountFrom(_, _, _)
CountFrom(cs, i, length) ==
  IF i > Size THEN length
  ELSE CountFrom(cs, i + 1, IF cs[i] = 0 THEN length ELSE length + 1)
getNumberOfCandidates(cs) == CountFrom(cs, 1, cs[0])

\* The candidates of a cell as a set of digits
CandSet(cs) == {d \in Digits : cs[d] = d}

----------------------------------------------------------------------------
(* The grid the caller has entered before the engine is used: the solved   *)
(* example puzzle with thirteen cells left empty.                          *)

Solution ==
  << 4,3,2,6,9,5,7,1,8,  9,6,7,8,1,2,4,3,5,  8,5,1,3,7,4,2,9,6,
     1,9,4,5,3,6,8,2,7,  3,8,6,9,2,7,5,4,1,  2,7,5,1,4,8,9,6,3,
     6,4,9,7,5,3,1,8,2,  5,2,3,4,8,1,6,7,9,  7,1,8,2,6,9,3,5,4 >>
EmptyCells == {11, 12, 13, 18, 20, 22, 37, 41, 46, 48, 50, 72, 74}
Entered == [cell \in Cells |-> IF cell \in EmptyCells THEN 0 ELSE Solution[cell + 1]]

\* The cells and digits of the setCellValue calls the model makes
EditCells == {9, 11, 12}
EditDigits == {0, 8}

----------------------------------------------------------------------------
(* Sudoku: reset, setCellValue, validate, pencil marks *)

\* A setVal that does not take 0 for a value
setValNotZero(v, cell, digit) ==
  IF digit = 0 THEN v ELSE [v EXCEPT ![cell] = digit]

\* Cell.setVal
setVal(v, cell, digit) == [v EXCEPT ![cell] = digit]

\* Sudoku.setCellValue(row, col, val)
setCellValue(v, row, col, digit) == setVal(v, rowModel(row, col), digit)

\* Sudoku.reset: every cell gets value 0, all candidates and no
\* solvedCandidates; the three fields of the cells after the call
reset ==
  [val |-> [cell \in Cells |-> 0],
   candidates |-> [cell \in Cells |-> FullCandidates],
   solvedCandidates |-> [cell \in Cells |-> << >>]]

\* SudokuView.example: the setValue(row, col, val) calls it makes, in order
ExampleValues ==
  << <<0,3,6>>, <<0,4,9>>, <<0,7,1>>,
     <<1,4,1>>, <<1,6,4>>, <<1,8,5>>,
     <<2,3,3>>,
     <<3,4,3>>, <<3,7,2>>, <<3,8,7>>,
     <<4,0,3>>, <<4,2,6>>, <<4,4,2>>, <<4,6,5>>,
     <<5,1,7>>, <<5,2,5>>, <<5,3,1>>, <<5,7,6>>, <<5,8,3>>,
     <<6,2,9>>, <<6,3,7>>, <<7,1,2>>,
     <<8,0,7>>, <<8,1,1>>, <<8,2,8>>, <<8,3,2>> >>

\* SudokuView.example: clearSudoku(), then the setValue calls from the i-th on
RECURSIVE setValuesFrom(_, _)
setValuesFrom(v, i) ==
  IF i > Len(ExampleValues) THEN v
  ELSE setValuesFrom(setCellValue(v, ExampleValues[i][1], ExampleValues[i][2],
                                  ExampleValues[i][3]), i + 1)
example == setValuesFrom(reset.val, 1)

\* The cells touched when the row, or the block, is left out of the loop
TouchedByNoRow(cell) ==
  UNION {{colModel(getCol(cell), i), blockModel(getBlock(cell), i)} : i \in Idx}
TouchedByNoBlock(cell) ==
  UNION {{rowModel(getRow(cell), i), colModel(getCol(cell), i)} : i \in Idx}

\* The cells updatePencilMarks touches for one solved cell: for i = 0..8 the
\* i-th cell of its row, of its column and of its block
TouchedBy(cell) ==
  UNION {{rowModel(getRow(cell), i), colModel(getCol(cell), i),
          blockModel(getBlock(cell), i)} : i \in Idx}
Touched == [cell \in Cells |-> TouchedBy(cell)]

\* A resetPencilMarks that passes over the first cell
resetPencilMarksFromSecondCell(cand) ==
  [cell \in Cells |-> IF cell = 0 THEN cand[cell] ELSE FullCandidates]
\* Sudoku.resetPencilMarks: forEachCell(cell => cell.resetCandidates())
resetPencilMarks(cand) == [cell \in Cells |-> FullCandidates]

\* Sudoku.updatePencilMarks: forEachCell, in row-major order; a cell with a
\* value clears that value in every cell of its row, column and block.
\* Nothing is reset first.
updateForCell(v, cand, cell) ==
  IF v[cell] # 0
  THEN [p \in Cells |-> IF p \in Touched[cell]
                        THEN clearCandidate(cand[p], v[cell])
                        ELSE cand[p]]
  ELSE cand
RECURSIVE updateCols(_, _, _, _)
updateCols(v, cand, row, col) ==
  IF col >= Size THEN cand
  ELSE LET after == updateForCell(v, cand, rowModel(row, col))
       IN IF Evaluated(after) THEN updateCols(v, after, row, col + 1) ELSE after
RECURSIVE updateRows(_, _, _)
updateRows(v, cand, row) ==
  IF row >= Size THEN cand
  ELSE LET after == updateCols(v, cand, row, 0)
       IN IF Evaluated(after) THEN updateRows(v, after, row + 1) ELSE after
\* An updatePencilMarks that resets the pencil marks first
updatePencilMarksAfterReset(v, cand) == updateRows(v, resetPencilMarks(cand), 0)
updatePencilMarks(v, cand) == updateRows(v, cand, 0)

\* Sudoku.validate: for every house (forEachHouse order) and digit 1..9, the
\* cells of the house holding the digit, all reported when more than one
cellsWithThisDigit(v, house, digit) ==
  SelectSeq([i \in 1 .. Size |-> house[i - 1]], LAMBDA cell : v[cell] = digit)
\* Reports that leave out the first cell holding the digit
reportsForLaterCells(v, j, digit) ==
  LET house == House(HouseSeq[j][1], HouseSeq[j][2])
      cells == cellsWithThisDigit(v, house, digit)
  IN IF Len(cells) > 1
     THEN [i \in 1 .. (Len(cells) - 1) |->
             [cell |-> cells[i + 1], house |-> HouseSeq[j][1], digit |-> digit]]
     ELSE << >>
reportsFor(v, j, digit) ==
  LET house == House(HouseSeq[j][1], HouseSeq[j][2])
      cells == cellsWithThisDigit(v, house, digit)
  IN IF Len(cells) > 1
     THEN [i \in 1 .. Len(cells) |->
             [cell |-> cells[i], house |-> HouseSeq[j][1], digit |-> digit]]
     ELSE << >>
RECURSIVE validateDigits(_, _, _)
validateDigits(v, j, digit) ==
  IF digit > Size THEN << >>
  ELSE reportsFor(v, j, digit) \o validateDigits(v, j, digit + 1)
RECURSIVE validateHouses(_, _)
validateHouses(v, j) ==
  IF j > 3 * Size THEN << >>
  ELSE validateDigits(v, j, 1) \o validateHouses(v, j + 1)
validate(v) == validateHouses(v, 1)

----------------------------------------------------------------------------
(* Combination<T>: a generator object is the record of its fields          *)
(* [n, k, pointers, numberOfCombinations]; pointers is an array on 0..k-1  *)

\* Combination.factorial
RECURSIVE factorialFrom(_, _, _)
factorialFrom(x, i, acc) ==
  IF i > x THEN acc ELSE factorialFrom(x, i + 1, acc * i)
factorial(x) == factorialFrom(x, 1, 1)

\* A range check that takes k = n.length for too large
constructorThrowsAtLength(elements, size) == size >= Len(elements) \/ size < 0

\* Combination.constructor rejects k > n.length and k < 0 with a RangeError
constructorThrows(elements, size) == size > Len(elements) \/ size < 0

\* A constructor that leaves k! out of the number of combinations
newCombinationOrdered(elements, size) ==
  [n |-> elements,
   k |-> size,
   pointers |-> [i \in 0 .. (size - 1) |-> i],
   numberOfCombinations |->
     factorial(Len(elements)) \div factorial(Len(elements) - size)]

\* Combination.constructor: pointers 0, 1, ..., k-1, and the number of
\* combinations n! / ((n-k)! * k!)
newCombination(elements, size) ==
  [n |-> elements,
   k |-> size,
   pointers |-> [i \in 0 .. (size - 1) |-> i],
   numberOfCombinations |->
     factorial(Len(elements))
       \div (factorial(Len(elements) - size) * factorial(size))]

\* A hasNext that still holds when the count has come down to 0
hasNextAtZero(c) == c.numberOfCombinations >= 0

\* Combination.hasNext
hasNext(c) == c.numberOfCombinations > 0

\* The combination the pointers designate (the loop at the top of next())
currentCombination(c) == [i \in 1 .. c.k |-> c.n[c.pointers[i - 1] + 1]]

\* incrementPointers: the first pointer from the right that is not at its
\* maximum n.length - k + i (the loop ends at i = -1, where pointers[i] is
\* undefined and equals no number)
RECURSIVE firstPointerToIncrement(_, _)
firstPointerToIncrement(c, i) ==
  IF i >= 0 /\ c.pointers[i] = Len(c.n) - c.k + i
  THEN firstPointerToIncrement(c, i - 1)
  ELSE i

\* An incrementPointers that leaves the pointers after the incremented one
\* where they are
incrementPointersOnlyOne(c) ==
  IF hasNext(c)
  THEN LET i == firstPointerToIncrement(c, c.k - 1)
       IN IF i >= 0
          THEN [c EXCEPT !.pointers =
                  [j \in 0 .. (c.k - 1) |->
                     IF j = i THEN c.pointers[i] + 1 ELSE c.pointers[j]]]
          ELSE c
  ELSE c

\* Combination.incrementPointers
incrementPointers(c) ==
  IF hasNext(c)
  THEN LET i == firstPointerToIncrement(c, c.k - 1)
       IN IF i >= 0
          THEN [c EXCEPT !.pointers =
                  [j \in 0 .. (c.k - 1) |->
                     IF j < i THEN c.pointers[j]
                     ELSE c.pointers[i] + 1 + (j - i)]]
          ELSE c
  ELSE c

\* Combination.next, when hasNext() holds: the generator after the call
\* (the returned combination is currentCombination of the generator before)
next(c) ==
  incrementPointers([c EXCEPT !.numberOfCombinations = c.numberOfCombinations - 1])

\* Cell.getCombinationsOfCandidates: while (hasNext()) push(next())
RECURSIVE allCombinations(_, _)
allCombinations(c, acc) ==
  IF hasNext(c)
  THEN LET after == next(c)
           list == Append(acc, currentCombination(c))
       IN IF Evaluated(after) /\ Evaluated(list)
          THEN allCombinations(after, list)
          ELSE acc
  ELSE acc
getCombinationsOfCandidates(value, cs, size) ==
  IF value = 0 /\ getNumberOfCandidates(cs) >= size
  THEN allCombinations(newCombination(getCandidates(cs), size), << >>)
  ELSE << >>

----------------------------------------------------------------------------
(* The deduction techniques.  They read the values, and change the         *)
(* candidates and solvedCandidates of the cells; st is the record          *)
(* [cand, solved, result] of both and of the list being returned; its      *)
(* field log records every deduction as it is made.                        *)

Range(seq) == {seq[i] : i \in 1 .. Len(seq)}

\* The cells of the j-th house of forEachHouse, as a sequence (position p
\* of the sequence is index p - 1 of the array)
HouseCells(j) ==
  [p \in 1 .. Size |-> House(HouseSeq[j][1], HouseSeq[j][2])[p - 1]]

\* Cell.hasSameCandidates
hasSameCandidates(cs, other) ==
  LET thisCandidates == getCandidates(cs)
      otherCandidates == getCandidates(other)
  IN /\ Len(thisCandidates) = Len(otherCandidates)
     /\ \A i \in 1 .. Len(thisCandidates) : thisCandidates[i] = otherCandidates[i]

\* A subtraction that leaves the first set as it is
subtractNothing(cellSetOne, cellSetTwo) == cellSetOne
\* Sudoku.subtractSetsOfCells
subtractSetsOfCells(cellSetOne, cellSetTwo) ==
  SelectSeq(cellSetOne, LAMBDA cell : cell \notin Range(cellSetTwo))

\* Sudoku.removePencilMarks
removePencilMarks(cand, cells, digits) ==
  [p \in Cells |->
     IF p \in Range(cells)
     THEN [d \in 0 .. Size |-> IF d \in Range(digits) THEN 0 ELSE cand[p][d]]
     ELSE cand[p]]

\* Sudoku.removePencilMarksWhenNotInCombination
removePencilMarksWhenNotInCombination(cand, cells, combination) ==
  [p \in Cells |->
     IF p \in Range(cells)
     THEN [d \in 0 .. Size |->
             IF cand[p][d] # 0 /\ d \notin Range(combination) THEN 0 ELSE cand[p][d]]
     ELSE cand[p]]

\* The candidate sets of the cells of a house, by position
HouseCandidates(cand, cells) ==
  [q \in 1 .. Len(cells) |-> CandSet(cand[cells[q]])]

\* findNakedValues, the body of cells.forEach for the cell at position p
\* Matching cells looked for in the whole house, not after position p only
matchingCellsWholeHouse(v, cand, cells, p) ==
  <<cells[p]>> \o
  SelectSeq(SubSeq(cells, 1, p - 1) \o SubSeq(cells, p + 1, Len(cells)),
            LAMBDA other : v[other] = 0 /\ hasSameCandidates(cand[cells[p]], cand[other]))
matchingCells(v, cand, cells, p) ==
  <<cells[p]>> \o
  SelectSeq(SubSeq(cells, p + 1, Len(cells)),
            LAMBDA other : v[other] = 0 /\ hasSameCandidates(cand[cells[p]], cand[other]))
nakedReport(st, cells, p, matching, digits) ==
  [cand |-> removePencilMarks(st.cand, subtractSetsOfCells(cells, matching), digits),
   solved |-> [c \in Cells |-> IF c \in Range(matching) THEN digits ELSE st.solved[c]],
   result |-> st.result \o matching,
   log |-> Append(st.log,
             [cells |-> cells, p |-> p, group |-> matching, digits |-> digits,
              before |-> HouseCandidates(st.cand, cells),
              after |-> HouseCandidates(
                          removePencilMarks(st.cand, subtractSetsOfCells(cells, matching),
                                            digits), cells)])]
nakedInCell(v, st, cells, p, size) ==
  IF v[cells[p]] = 0 /\ getNumberOfCandidates(st.cand[cells[p]]) = size
  THEN LET matching == matchingCells(v, st.cand, cells, p)
       IN IF Len(matching) = size
          THEN nakedReport(st, cells, p, matching, getCandidates(st.cand[matching[1]]))
          ELSE st
  ELSE st

RECURSIVE nakedInHouse(_, _, _, _, _)
nakedInHouse(v, st, cells, p, size) ==
  IF p > Len(cells) THEN st
  ELSE LET after == nakedInCell(v, st, cells, p, size)
       IN IF Evaluated(after) THEN nakedInHouse(v, after, cells, p + 1, size)
          ELSE after
RECURSIVE nakedFrom(_, _, _, _)
nakedFrom(v, st, j, size) ==
  IF j > 3 * Size THEN st
  ELSE LET after == nakedInHouse(v, st, HouseCells(j), 1, size)
       IN IF Evaluated(after) THEN nakedFrom(v, after, j + 1, size) ELSE after

\* Sudoku.findNakedValues(size)
findNakedValues(v, cand, solved, size) ==
  nakedFrom(v, [cand |-> updatePencilMarks(v, cand), solved |-> solved,
                result |-> << >>, log |-> << >>], 1, size)

\* Sudoku.findPointingValuesForCells, the body for one digit and one of the
\* three cells; st is the record [cand, log], and the log gets an entry for
\* every pass of houseCells.forEach that clears a candidate
\* The house cells a pass clears the digit from, the three cells included
pointedCellsAlsoInThree(v, cand, threeCells, houseCells, digit) ==
  SelectSeq(houseCells, LAMBDA c : v[c] = 0 /\ isCandidate(cand[c], digit))
pointedCells(v, cand, threeCells, houseCells, digit) ==
  SelectSeq(houseCells, LAMBDA c : /\ c \notin Range(threeCells)
                                   /\ v[c] = 0
                                   /\ isCandidate(cand[c], digit))
pointingCleared(st, threeCells, inBlock, houseCells, digit, cell, pointed, cleared) ==
  IF pointed = << >> THEN st
  ELSE [cand |-> cleared,
        log |-> Append(st.log,
                  [cells |-> houseCells, three |-> threeCells,
                   block |-> inBlock, digit |-> digit, cell |-> cell,
                   before |-> HouseCandidates(st.cand, houseCells),
                   inBlockBefore |-> HouseCandidates(st.cand, inBlock),
                   after |-> HouseCandidates(cleared, houseCells)])]
pointingClear(st, threeCells, inBlock, houseCells, digit, cell, pointed) ==
  pointingCleared(st, threeCells, inBlock, houseCells, digit, cell, pointed,
                  [c \in Cells |-> IF c \in Range(pointed)
                                   THEN clearCandidate(st.cand[c], digit)
                                   ELSE st.cand[c]])
pointingForCell(v, st, threeCells, inBlock, houseCells, digit, cell) ==
  IF v[cell] = 0 /\ isCandidate(st.cand[cell], digit)
  THEN IF ~ \E i \in 1 .. Len(inBlock) :
              /\ v[inBlock[i]] = 0
              /\ isCandidate(st.cand[inBlock[i]], digit)
              /\ inBlock[i] \notin Range(threeCells)
       THEN pointingClear(st, threeCells, inBlock, houseCells, digit, cell,
                          pointedCells(v, st.cand, threeCells, houseCells, digit))
       ELSE st
  ELSE st

pointingForDigit(v, st, threeCells, inBlock, houseCells, digit) ==
  LET one == pointingForCell(v, st, threeCells, inBlock, houseCells,
                             digit, threeCells[1])
      two == pointingForCell(v, one, threeCells, inBlock, houseCells,
                             digit, threeCells[2])
  IN IF Evaluated(one) /\ Evaluated(two)
     THEN pointingForCell(v, two, threeCells, inBlock, houseCells, digit, threeCells[3])
     ELSE st

RECURSIVE pointingFrom(_, _, _, _, _, _)
pointingFrom(v, st, threeCells, inBlock, houseCells, digit) ==
  IF digit > Size THEN st
  ELSE LET after == pointingForDigit(v, st, threeCells, inBlock, houseCells, digit)
       IN IF Evaluated(after)
          THEN pointingFrom(v, after, threeCells, inBlock, houseCells, digit + 1)
          ELSE after

\* Sudoku.findPointingValuesForCells
findPointingValuesForCells(v, st, threeCells, inBlock, houseCells) ==
  pointingFrom(v, st, threeCells, inBlock, houseCells, 1)

\* The cells of a whole row, column or block as a sequence
rowCells(rc) == [p \in 1 .. Size |-> rowModel(rc, p - 1)]
colCells(rc) == [p \in 1 .. Size |-> colModel(rc, p - 1)]
blockCells(b) == [p \in 1 .. Size |-> blockModel(b, p - 1)]

\* findPointingValues, the body of the two loops: slice(threeCells * 3,
\* threeCells * 3 + 3) of row rc, then of column rc
pointingStep(v, st, rc, threeCells) ==
  LET threeRowCells == SubSeq(rowCells(rc), threeCells * 3 + 1, threeCells * 3 + 3)
      afterRow == findPointingValuesForCells(v, st, threeRowCells,
                    blockCells(getBlock(threeRowCells[1])), rowCells(rc))
      threeColCells == SubSeq(colCells(rc), threeCells * 3 + 1, threeCells * 3 + 3)
  IN IF Evaluated(afterRow)
     THEN findPointingValuesForCells(v, afterRow, threeColCells,
                    blockCells(getBlock(threeColCells[1])), colCells(rc))
     ELSE st

RECURSIVE pointingLoop(_, _, _)
pointingLoop(v, st, rc) ==
  IF rc >= Size THEN st
  ELSE LET one == pointingStep(v, st, rc, 0)
           two == pointingStep(v, one, rc, 1)
           three == pointingStep(v, two, rc, 2)
       IN IF Evaluated(one) /\ Evaluated(two) /\ Evaluated(three)
          THEN pointingLoop(v, three, rc + 1)
          ELSE st

\* Sudoku.findPointingValues: nothing is ever pushed on result
findPointingValues(v, cand, solved) ==
  LET after == pointingLoop(v, [cand |-> updatePencilMarks(v, cand),
                                log |-> << >>], 0)
  IN [cand |-> after.cand,
      solved |-> solved,
      result |-> << >>,
      log |-> after.log]

----------------------------------------------------------------------------
(* Hidden values *)

\* Sudoku.areCombinationsEqual
areCombinationsEqual(combinationOne, combinationTwo) ==
  /\ Len(combinationOne) = Len(combinationTwo)
  /\ \A i \in 1 .. Len(combinationOne) : combinationOne[i] = combinationTwo[i]

\* Sudoku.findOtherCellsWithCombination: the unsolved cells of the house,
\* other than the one at position p, one of whose combinations of
\* combination.length candidates equals the combination
findOtherCellsWithCombination(v, cand, combination, cells, p) ==
  LET has(cell) ==
        LET cellCombinations ==
              getCombinationsOfCandidates(v[cell], cand[cell], Len(combination))
        IN \E i \in 1 .. Len(cellCombinations) :
              areCombinationsEqual(combination, cellCombinations[i])
      others == SelectSeq([q \in 1 .. Len(cells) |-> q],
                          LAMBDA q : q # p /\ v[cells[q]] = 0 /\ has(cells[q]))
  IN [i \in 1 .. Len(others) |-> cells[others[i]]]

\* Sudoku.checkOtherCellsDoNotContainCandidatesInCombination
checkOtherCellsDoNotContainCandidatesInCombination(v, cand, cells, cellsWithSameCombination, combination) ==
  \A i \in 1 .. Len(cells) :
     cells[i] \notin Range(cellsWithSameCombination) =>
       \A j \in 1 .. Len(combination) :
          ~ (v[cells[i]] = 0 /\ isCandidate(cand[cells[i]], combination[j]))

\* findHiddenValuesInHouse, the body of houseCellCombinations.forEach: the
\* cells found are restricted to the combination, marked and reported
hiddenReport(st, cells, p, combination, cellsWithSameCombination) ==
  [cand |-> removePencilMarksWhenNotInCombination(
              st.cand, cellsWithSameCombination, combination),
   solved |-> [c \in Cells |->
                 IF c \in Range(cellsWithSameCombination)
                 THEN combination ELSE st.solved[c]],
   result |-> st.result \o cellsWithSameCombination,
   log |-> Append(st.log,
             [cells |-> cells, p |-> p, group |-> cellsWithSameCombination,
              digits |-> combination,
              before |-> HouseCandidates(st.cand, cells)])]
hiddenForCombination(v, st, cells, p, combination) ==
  LET others == findOtherCellsWithCombination(v, st.cand, combination, cells, p)
      cellsWithSameCombination == Append(others, cells[p])
  IN IF /\ Len(others) + 1 = Len(combination)
        /\ checkOtherCellsDoNotContainCandidatesInCombination(
             v, st.cand, cells, cellsWithSameCombination, combination)
     THEN hiddenReport(st, cells, p, combination, cellsWithSameCombination)
     ELSE st

\* The combinations of a house cell are listed once, before the loop over
\* them changes any candidate
RECURSIVE hiddenOverCombinations(_, _, _, _, _, _)
hiddenOverCombinations(v, st, cells, p, combinations, i) ==
  IF i > Len(combinations) THEN st
  ELSE LET after == hiddenForCombination(v, st, cells, p, combinations[i])
       IN IF Evaluated(after)
          THEN hiddenOverCombinations(v, after, cells, p, combinations, i + 1)
          ELSE after

\* findHiddenValuesInHouse, the body of houseCells.forEach
hiddenInCell(v, st, cells, p, size) ==
  IF getNumberOfCandidates(st.cand[cells[p]]) > size /\ v[cells[p]] = 0
  THEN hiddenOverCombinations(v, st, cells, p,
         getCombinationsOfCandidates(v[cells[p]], st.cand[cells[p]], size), 1)
  ELSE st

\* Sudoku.findHiddenValuesInHouse
RECURSIVE findHiddenValuesInHouse(_, _, _, _, _)
findHiddenValuesInHouse(v, st, cells, p, size) ==
  IF p > Len(cells) THEN st
  ELSE LET after == hiddenInCell(v, st, cells, p, size)
       IN IF Evaluated(after)
          THEN findHiddenValuesInHouse(v, after, cells, p + 1, size)
          ELSE after
RECURSIVE hiddenFrom(_, _, _, _)
hiddenFrom(v, st, j, size) ==
  IF j > 3 * Size THEN st
  ELSE LET after == findHiddenValuesInHouse(v, st, HouseCells(j), 1, size)
       IN IF Evaluated(after) THEN hiddenFrom(v, after, j + 1, size) ELSE after

\* Sudoku.findHiddenValues(size): the results of the houses, concatenated
findHiddenValues(v, cand, solved, size) ==
  hiddenFrom(v, [cand |-> updatePencilMarks(v, cand), solved |-> solved,
                 result |-> << >>, log |-> << >>], 1, size)

----------------------------------------------------------------------------
(* The back-tracking solver, Sudoku.solve().  The legal digits of a cell   *)
(* are computed against the values now in its row, column and block.       *)

\* Cell.getNextValue: the first candidate greater than the current value,
\* or 0 when there is none
RECURSIVE nextValueFrom(_, _)
nextValueFrom(cs, digit) ==
  IF digit > Size THEN 0
  ELSE IF cs[digit] = digit THEN digit
  ELSE nextValueFrom(cs, digit + 1)
\* A getNextValue that starts from digit 1 whatever the current value is
getNextValueFromOne(value, cs) == nextValueFrom(cs, 1)
\* A getNextValue that does not look at the candidates
getNextValueAnyDigit(value, cs) == IF value < Size THEN value + 1 ELSE 0
\* A getNextValue whose loop stops before the digit 9
getNextValueBelowNine(value, cs) ==
  LET digit == nextValueFrom(cs, value + 1)
  IN IF digit = Size THEN 0 ELSE digit
getNextValue(value, cs) == nextValueFrom(cs, value + 1)

\* The candidates of a cell against the live values of the other cells of
\* its row, column and block
liveCandidates(v, cell) ==
  [d \in 0 .. Size |->
     IF d # 0 /\ \A p \in Touched[cell] \ {cell} : v[p] # d THEN d ELSE 0]

\* The candidates the search tries for a cell: the live ones, whatever the
\* pencil marks of the cell are
\* A search that tries the pencil marks of the cell as they are
pencilMarksOfCell(v, cand, cell) == cand[cell]
candidatesToTry(v, cand, cell) == liveCandidates(v, cell)

unsolvedCells(v) == {cell \in Cells : v[cell] = 0}

\* The unsolved cell with the fewest legal digits, the first in row-major
\* order among those
\* A selection that takes the first unsolved cell, whatever its legal digits
selectFirstUnsolved(v) ==
  CHOOSE cell \in unsolvedCells(v) : \A other \in unsolvedCells(v) : cell <= other
firstWithFewest(unsolved, count) ==
  CHOOSE cell \in unsolved :
    \A other \in unsolved :
       \/ count[cell] < count[other]
       \/ count[cell] = count[other] /\ cell <= other
selectCell(v) ==
  firstWithFewest(unsolvedCells(v),
                  [cell \in unsolvedCells(v) |->
                     getNumberOfCandidates(liveCandidates(v, cell))])

\* The list solve() returns on success: the cells it assigned, in order
solveResult(cells) == cells

\* The last cell assigned
top(cells) == cells[Len(cells)]
pop(cells) == SubSeq(cells, 1, Len(cells) - 1)

----------------------------------------------------------------------------
(* Initial state: the entered grid, every pencil mark set, no generator *)

Init ==
  /\ val = Entered
  /\ candidates = [cell \in Cells |-> FullCandidates]
  /\ solvedCandidates = [cell \in Cells |-> << >>]
  /\ lastOp = "init"
  /\ result = << >>
  /\ log = << >>
  /\ steps = 0
  /\ solveState = "Idle"
  /\ mode = "forward"
  /\ stack = << >>
  /\ saved = Entered
  /\ undone = 0
  /\ n = << >>
  /\ k = 0
  /\ pointers = << >>
  /\ numberOfCombinations = 0
  /\ yielded = << >>
  /\ combState = "new"
  /\ thrown = 0
  /\ currentRow = 0
  /\ currentCol = 0

----------------------------------------------------------------------------
(* Actions of the board *)

\* setCellValue(row, col, val), between two calls of the engine
SetCellValue ==
  /\ steps < MaxSteps
  /\ solveState # "Searching"
  /\ \E cell \in EditCells, digit \in EditDigits :
       /\ val' = setCellValue(val, getRow(cell), getCol(cell), digit)
       /\ saved' = val'
  /\ steps' = steps + 1
  /\ lastOp' = "setCellValue"
  /\ result' = << >>
  /\ log' = << >>
  /\ solveState' = "Idle"
  /\ mode' = "forward"
  /\ stack' = << >>
  /\ undone' = 0
  /\ UNCHANGED <<candidates, solvedCandidates>>
  /\ UNCHANGED combVars
  /\ UNCHANGED viewVars

ResetPencilMarks ==
  /\ steps < MaxSteps
  /\ candidates' = resetPencilMarks(candidates)
  /\ lastOp' = "resetPencilMarks"
  /\ result' = << >>
  /\ log' = << >>
  /\ steps' = steps + 1
  /\ UNCHANGED <<val, solvedCandidates>>
  /\ UNCHANGED solverVars
  /\ UNCHANGED combVars
  /\ UNCHANGED viewVars

UpdatePencilMarks ==
  /\ steps < MaxSteps
  /\ solveState # "Searching"
  /\ candidates' = updatePencilMarks(val, candidates)
  /\ lastOp' = "updatePencilMarks"
  /\ result' = << >>
  /\ log' = << >>
  /\ steps' = steps + 1
  /\ UNCHANGED <<val, solvedCandidates>>
  /\ UNCHANGED solverVars
  /\ UNCHANGED combVars
  /\ UNCHANGED viewVars

Validate ==
  /\ steps < MaxSteps
  /\ solveState # "Searching"
  /\ result' = validate(val)
  /\ log' = << >>
  /\ lastOp' = "validate"
  /\ steps' = steps + 1
  /\ UNCHANGED <<val, candidates, solvedCandidates>>
  /\ UNCHANGED solverVars
  /\ UNCHANGED combVars
  /\ UNCHANGED viewVars

\* A deduction technique that also places, as the value of every returned
\* cell left with one candidate, that candidate
DeducedAndPlaced(st, name) ==
  /\ candidates' = st.cand
  /\ solvedCandidates' = st.solved
  /\ result' = st.result
  /\ log' = st.log
  /\ lastOp' = name
  /\ steps' = steps + 1
  /\ val' = [cell \in Cells |->
              IF /\ \E i \in 1 .. Len(st.result) : st.result[i] = cell
                 /\ Cardinality(CandSet(st.cand[cell])) = 1
              THEN CHOOSE d \in CandSet(st.cand[cell]) : TRUE
              ELSE val[cell]]
  /\ UNCHANGED solverVars
  /\ UNCHANGED combVars
  /\ UNCHANGED viewVars

\* The end of a deduction technique: its candidates, solvedCandidates and
\* returned list
Deduced(st, name) ==
  /\ candidates' = st.cand
  /\ solvedCandidates' = st.solved
  /\ result' = st.result
  /\ log' = st.log
  /\ lastOp' = name
  /\ steps' = steps + 1
  /\ UNCHANGED val
  /\ UNCHANGED solverVars
  /\ UNCHANGED combVars
  /\ UNCHANGED viewVars

\* findNakedValues(1) and findNakedValues(2), as the view calls them
FindNakedValues ==
  /\ steps < MaxSteps
  /\ solveState # "Searching"
  /\ \E size \in {1, 2} :
       Deduced(findNakedValues(val, candidates, solvedCandidates, size),
               IF size = 1 THEN "findNakedValues(1)" ELSE "findNakedValues(2)")

\* findHiddenValues(1) and findHiddenValues(2), as the view calls them
FindHiddenValues ==
  /\ steps < MaxSteps
  /\ \E size \in {1, 2} :
       Deduced(findHiddenValues(val, candidates, solvedCandidates, size),
               IF size = 1 THEN "findHiddenValues(1)" ELSE "findHiddenValues(2)")

FindPointingValues ==
  /\ steps < MaxSteps
  /\ Deduced(findPointingValues(val, candidates, solvedCandidates),
             "findPointingValues")

Next ==
  \/ SetCellValue
  \/ ResetPencilMarks
  \/ UpdatePencilMarks
  \/ Validate
  \/ FindNakedValues
  \/ FindHiddenValues
  \/ FindPointingValues

Spec == Init /\ [][Next]_vars

----------------------------------------------------------------------------
(* Actions of the solver.  solve() is one call; its steps are the          *)
(* selections, placements and undoings of the search, in the order the     *)
(* recursion makes them.                                                   *)

\* solve() is called
SolveStart ==
  /\ solveState = "Idle"
  /\ solveState' = "Searching"
  /\ mode' = "forward"
  /\ stack' = << >>
  /\ saved' = val
  /\ undone' = 0
  /\ lastOp' = "solve"
  /\ result' = << >>
  /\ UNCHANGED <<val, candidates, solvedCandidates, log, steps>>
  /\ UNCHANGED combVars
  /\ UNCHANGED viewVars

\* Select the next cell and place its first legal digit; no unsolved cell
\* left ends the call in Solved, no legal digit starts backtracking
SolveForward ==
  /\ solveState = "Searching"
  /\ mode = "forward"
  /\ IF unsolvedCells(val) = {}
     THEN /\ solveState' = "Solved"
          /\ result' = solveResult(stack)
          /\ UNCHANGED <<val, mode, stack>>
     ELSE LET cell == selectCell(val)
              digit == getNextValue(0, candidatesToTry(val, candidates, cell))
          IN IF digit = 0
             THEN /\ mode' = "backtrack"
                  /\ UNCHANGED <<val, stack, solveState, result>>
             ELSE /\ val' = setVal(val, cell, digit)
                  /\ stack' = Append(stack, cell)
                  /\ UNCHANGED <<mode, solveState, result>>
  /\ UNCHANGED <<candidates, solvedCandidates, lastOp, log, steps, saved, undone>>
  /\ UNCHANGED combVars
  /\ UNCHANGED viewVars

\* The recursion below the cell assigned last has failed: try its next
\* legal digit, or undo its placement and fail one level up; a failure of
\* the top-level call ends the call in Failed (Unsolvable is raised)
SolveBacktrack ==
  /\ solveState = "Searching"
  /\ mode = "backtrack"
  /\ IF stack = << >>
     THEN /\ solveState' = "Failed"
          /\ UNCHANGED <<val, mode, stack, undone>>
     ELSE LET cell == top(stack)
              digit == getNextValue(val[cell], candidatesToTry(val, candidates, cell))
          IN /\ val' = setVal(val, cell, digit)
             /\ undone' = IF undone < MaxUndone THEN undone + 1 ELSE undone
             /\ IF digit = 0
                THEN /\ stack' = pop(stack)
                     /\ UNCHANGED <<mode, solveState>>
                ELSE /\ mode' = "forward"
                     /\ UNCHANGED <<stack, solveState>>
  /\ UNCHANGED <<candidates, solvedCandidates, lastOp, result, log, steps, saved>>
  /\ UNCHANGED combVars
  /\ UNCHANGED viewVars

SolveNext ==
  \/ SetCellValue
  \/ SolveStart
  \/ SolveForward
  \/ SolveBacktrack

SolveSpec == Init /\ [][SolveNext]_vars

\* solve() is one call of a loop that runs until it returns or throws: a
\* step of the search that can be taken is taken
SolveRuns == WF_vars(SolveForward) /\ WF_vars(SolveBacktrack)
SolveFairSpec == SolveSpec /\ SolveRuns

\* The Example button: clearSudoku() and the setValue calls of the example
Example ==
  /\ steps < MaxSteps
  /\ solveState # "Searching"
  /\ val' = example
  /\ candidates' = reset.candidates
  /\ solvedCandidates' = reset.solvedCandidates
  /\ saved' = val'
  /\ steps' = steps + 1
  /\ lastOp' = "example"
  /\ result' = << >>
  /\ log' = << >>
  /\ solveState' = "Idle"
  /\ mode' = "forward"
  /\ stack' = << >>
  /\ undone' = 0
  /\ UNCHANGED combVars
  /\ UNCHANGED viewVars

\* The example is loaded, solved and validated
ExampleNext ==
  \/ Example
  \/ SolveStart
  \/ SolveForward
  \/ SolveBacktrack
  \/ Validate

ExampleSpec == Init /\ [][ExampleNext]_vars

\* solve() is called on boards whose pencil marks have been updated, or
\* reduced by a deduction, or are stale after an edit
PencilNext ==
  \/ SetCellValue
  \/ UpdatePencilMarks
  \/ FindNakedValues
  \/ SolveStart
  \/ SolveForward
  \/ SolveBacktrack

PencilSpec == Init /\ [][PencilNext]_vars

-----------------------------------------------------------------------------
(* The view's selection: the cell the keys and the number buttons write    *)
(* to.  A handler that dereferences the element of a cell the page does    *)
(* not have throws a TypeError and changes nothing.                        *)

\* The cells a click is made on, and the keys and number buttons pressed
ClickCells == {<<8, 8>>, <<8, 7>>, <<4, 0>>}
ArrowKeys == {"ArrowLeft", "ArrowRight", "ArrowUp", "ArrowDown"}

\* The decimal digits of a number below 100, as a template literal writes it
DecimalDigits(x) == IF x < 10 THEN << x >> ELSE << x \div 10, x % 10 >>

\* SudokuView.idFromRowCol: `id${row}${col}`, here the characters after "id"
idFromRowCol(row, col) == DecimalDigits(row) \o DecimalDigits(col)

\* SudokuView.rowColFromId: [+id.substr(2, 1), +id.substr(3, 1)]
rowColFromId(id) == << id[1], id[2] >>

\* document.getElementById finds an element: the page has a div for every
\* row and column in 0..8 and for no other
hasElement(id) == \E row \in 0 .. 8, col \in 0 .. 8 : id = idFromRowCol(row, col)

\* The element of the selected cell exists
currentCellExists == hasElement(idFromRowCol(currentRow, currentCol))

\* An uncaught TypeError in a handler: the event is over, nothing is changed
TypeError ==
  /\ lastOp' = "TypeError"
  /\ steps' = steps + 1
  /\ UNCHANGED <<val, candidates, solvedCandidates, result, log>>
  /\ UNCHANGED solverVars
  /\ UNCHANGED combVars
  /\ UNCHANGED viewVars

\* SudokuView.selectCell(row, col): the class list of the current element
\* is read without a check, the new element with ?., and the row and col
\* are stored as given
selectCellOfView(row, col) ==
  /\ currentRow' = row
  /\ currentCol' = col

\* SudokuView.processNumericKeyPress(cell, keyValue): the value is set in
\* the model, '0' resets the pencil marks, the board is validated and the
\* selection moves one cell on, to the start of the next row after column 8
processNumericKeyPress(digit) ==
  IF ~ currentCellExists
  THEN TypeError
  ELSE /\ val' = setCellValue(val, currentRow, currentCol, digit)
       /\ saved' = val'
       /\ candidates' = IF digit = 0 THEN resetPencilMarks(candidates) ELSE candidates
       /\ result' = validate(val')
       /\ log' = << >>
       /\ lastOp' = "processNumericKeyPress"
       /\ steps' = steps + 1
       /\ solveState' = "Idle"
       /\ mode' = "forward"
       /\ stack' = << >>
       /\ undone' = 0
       /\ IF currentCol + 1 > 8
          THEN selectCellOfView(currentRow + 1, 0)
          ELSE selectCellOfView(currentRow, currentCol + 1)
       /\ UNCHANGED solvedCandidates
       /\ UNCHANGED combVars

\* SudokuView.onKey with a digit key
DigitKey ==
  /\ steps < MaxSteps
  /\ \E digit \in EditDigits : processNumericKeyPress(digit)

\* SudokuView.onClickNumberButton
NumberButton ==
  /\ steps < MaxSteps
  /\ \E digit \in EditDigits : processNumericKeyPress(digit)

\* SudokuView.onKey with an arrow key: the selection moves one cell and
\* wraps around at the edges
ArrowKey ==
  /\ steps < MaxSteps
  /\ \E key \in ArrowKeys :
       IF ~ currentCellExists
       THEN TypeError
       ELSE /\ CASE key = "ArrowLeft" ->
                    selectCellOfView(currentRow, IF currentCol = 0 THEN 8 ELSE currentCol - 1)
                 [] key = "ArrowRight" ->
                    selectCellOfView(currentRow, IF currentCol = 8 THEN 0 ELSE currentCol + 1)
                 [] key = "ArrowUp" ->
                    selectCellOfView(IF currentRow = 0 THEN 8 ELSE currentRow - 1, currentCol)
                 [] key = "ArrowDown" ->
                    selectCellOfView(IF currentRow = 8 THEN 0 ELSE currentRow + 1, currentCol)
            /\ lastOp' = key
            /\ steps' = steps + 1
            /\ UNCHANGED <<val, candidates, solvedCandidates, result, log>>
            /\ UNCHANGED solverVars
            /\ UNCHANGED combVars

\* SudokuView.onCellClick: the current element is deselected without a
\* check, and the row and col are read back from the id of the clicked one
CellClick ==
  /\ steps < MaxSteps
  /\ \E clicked \in ClickCells :
       IF ~ currentCellExists
       THEN TypeError
       ELSE /\ currentRow' = rowColFromId(idFromRowCol(clicked[1], clicked[2]))[1]
            /\ currentCol' = rowColFromId(idFromRowCol(clicked[1], clicked[2]))[2]
            /\ lastOp' = "onCellClick"
            /\ steps' = steps + 1
            /\ UNCHANGED <<val, candidates, solvedCandidates, result, log>>
            /\ UNCHANGED solverVars
            /\ UNCHANGED combVars

ViewNext ==
  \/ DigitKey
  \/ NumberButton
  \/ ArrowKey
  \/ CellClick

ViewSpec == Init /\ [][ViewNext]_vars

----------------------------------------------------------------------------
(* Properties of solve()                                                   *)

\* A board validate() has nothing to report on
Clean(v) == validate(v) = << >>

\* Two different cells that share a row, a column or a block
SharesHouse(a, b) ==
  /\ a # b
  /\ \/ getRow(a) = getRow(b)
     \/ getCol(a) = getCol(b)
     \/ getBlock(a) = getBlock(b)

\* Every row, column and block holds every digit 1..9 exactly once
IsComplete(v) ==
  /\ \A cell \in Cells : v[cell] \in Digits
  /\ \A a \in Cells, b \in Cells : SharesHouse(a, b) => v[a] # v[b]

\* Some way of filling the empty cells of v makes it complete: the empty
\* cells are tried in row-major order with every digit no cell of their houses holds
RECURSIVE HasCompletion(_)
HasCompletion(v) ==
  IF \A cell \in Cells : v[cell] # 0
  THEN IsComplete(v)
  ELSE LET cell == CHOOSE c \in Cells :
                     v[c] = 0 /\ \A other \in Cells : v[other] = 0 => c <= other
       IN \E digit \in Digits :
            /\ \A other \in Cells : SharesHouse(cell, other) => v[other] # digit
            /\ HasCompletion([v EXCEPT ![cell] = digit])

\* C1: when solve() fails on a validator-clean board, every cell holds the
\* value it held when solve() was called.
C1_RollbackOnFailure ==
  (solveState = "Failed" /\ Clean(saved)) => val = saved

\* A failed call on a clean board that had placed digits and undone them
C1_Witness ==
  /\ solveState = "Failed"
  /\ Clean(saved)
  /\ undone > 0

\* C2: when solve() succeeds on a validator-clean board, no cell is left
\* empty, validate() reports nothing, every house holds every digit exactly
\* once, and every cell that held a digit before the call still holds it.
C2_SolvedBoard ==
  (solveState = "Solved" /\ Clean(saved)) =>
     /\ \A cell \in Cells : val[cell] # 0
     /\ validate(val) = << >>
     /\ IsComplete(val)
     /\ \A cell \in Cells : saved[cell] # 0 => val[cell] = saved[cell]

\* A successful call on a clean board with empty cells, after backtracking
C2_Witness ==
  /\ solveState = "Solved"
  /\ Clean(saved)
  /\ unsolvedCells(saved) # {}
  /\ undone > 0

\* C3: on a validator-clean board solve() fails if and only if the board
\* has no completion, and a successful call leaves a completion of the board.
C3_UnsolvableIffNoCompletion ==
  (solveState \in {"Solved", "Failed"} /\ Clean(saved)) =>
     /\ solveState = "Failed" <=> ~ HasCompletion(saved)
     /\ solveState = "Solved" =>
          /\ IsComplete(val)
          /\ \A cell \in Cells : saved[cell] # 0 => val[cell] = saved[cell]

\* A failed call on a clean board each of whose empty cells had a digit
\* that no cell of its houses held
C3_Witness ==
  /\ solveState = "Failed"
  /\ Clean(saved)
  /\ unsolvedCells(saved) # {}
  /\ \A cell \in unsolvedCells(saved) :
        \E digit \in Digits :
           \A other \in Cells : SharesHouse(cell, other) => saved[other] # digit

\* C4: on success solve() returns the cells that were empty before the
\* call, each exactly once, in the order the solver assigned them, and no
\* cell that had a value; its length is 81 minus the number of pre-filled cells.
C4_ReturnedCells ==
  (solveState = "Solved" /\ Clean(saved)) =>
     /\ result = stack
     /\ {result[i] : i \in 1 .. Len(result)} = {cell \in Cells : saved[cell] = 0}
     /\ \A i \in 1 .. Len(result), j \in 1 .. Len(result) :
           i # j => result[i] # result[j]
     /\ Len(result) = Size * Size - Cardinality({cell \in Cells : saved[cell] # 0})

\* A successful call, made after an edit, that assigned more than one cell
C4_Witness ==
  /\ solveState = "Solved"
  /\ Clean(saved)
  /\ steps > 0
  /\ Len(result) > 1

----------------------------------------------------------------------------
(* Properties of the pencil marks and of validate()                        *)

\* The values of the solved cells of the row, the column and the block of
\* p, a solved p included
PlacedInHouses(v, p) ==
  {v[c] : c \in {c \in Cells : v[c] # 0 /\ (c = p \/ SharesHouse(c, p))}}

\* The digits that are the value of no solved cell sharing a house with p
NotPlacedAround(v, p) ==
  Digits \ {v[c] : c \in {c \in Cells : v[c] # 0 /\ SharesHouse(c, p)}}

\* C5 as stated: after updatePencilMarks() every unsolved cell holds exactly
\* the digits that are the value of no solved cell of its row, column or
\* block, whatever edits and eliminations came before.
C5_RecomputedFromValues ==
  lastOp = "updatePencilMarks" =>
     \A p \in Cells :
        val[p] = 0 => CandSet(candidates[p]) = NotPlacedAround(val, p)

\* C5 amended: updatePencilMarks() resets nothing; it takes away from the
\* candidates every cell has when it is called the values of the solved
\* cells of the cell's row, column and block, and changes nothing else.
C5_RemovesPlacedValues ==
  [][(steps' = steps + 1 /\ lastOp' = "updatePencilMarks") =>
       \A p \in Cells :
          CandSet(candidates'[p]) = CandSet(candidates[p]) \ PlacedInHouses(val, p)]_vars

\* updatePencilMarks() has run and an unsolved cell lacks a digit that no
\* solved cell of its houses holds
C5_Witness ==
  /\ lastOp = "updatePencilMarks"
  /\ \E p \in Cells :
        /\ val[p] = 0
        /\ CandSet(candidates[p]) # NotPlacedAround(val, p)
        /\ CandSet(candidates[p]) \subseteq NotPlacedAround(val, p)

\* C6: immediately after updatePencilMarks(), for every solved cell c and
\* every other cell p of c's row, column or block, the value of c is no
\* candidate of p.
C6_NoPeerHoldsSolvedValue ==
  lastOp = "updatePencilMarks" =>
     \A c \in Cells, p \in Cells :
        (val[c] # 0 /\ SharesHouse(c, p)) => ~ isCandidate(candidates[p], val[c])

\* updatePencilMarks() has run on an edited grid and left an unsolved cell
\* with candidates
C6_Witness ==
  /\ lastOp = "updatePencilMarks"
  /\ val # Entered
  /\ \E p \in Cells : val[p] = 0 /\ CandSet(candidates[p]) # {}

\* C7: updatePencilMarks() is idempotent: right after a call, with no value
\* changed, a second call leaves every cell with the candidates it has.
C7_UpdateIsIdempotent ==
  lastOp = "updatePencilMarks" => updatePencilMarks(val, candidates) = candidates

\* updatePencilMarks() has run and has cleared candidates
C7_Witness ==
  /\ lastOp = "updatePencilMarks"
  /\ \E p \in Cells : CandSet(candidates[p]) # Digits
  /\ updatePencilMarks(val, candidates) = candidates

\* The names of the operations that are no reset
NonResettingOps ==
  {"setCellValue", "updatePencilMarks", "findNakedValues(1)",
   "findNakedValues(2)", "findHiddenValues(1)", "findHiddenValues(2)",
   "findPointingValues", "validate"}

\* C8: setCellValue, updatePencilMarks, findNakedValues, findHiddenValues,
\* findPointingValues and validate re-add no digit: after each of them the
\* candidates of every cell are a subset of what they were before it.
C8_CandidatesOnlyShrink ==
  [][(steps' = steps + 1 /\ lastOp' \in NonResettingOps) =>
       \A p \in Cells : CandSet(candidates'[p]) \subseteq CandSet(candidates[p])]_vars

\* A naked pair has been found and has taken a digit away from an unsolved
\* cell that no solved cell of its houses holds
C8_Witness ==
  /\ lastOp = "findNakedValues(2)"
  /\ result # << >>
  /\ \E p \in Cells :
        /\ val[p] = 0
        /\ NotPlacedAround(val, p) \ CandSet(candidates[p]) # {}

\* The cells of the house of the given kind that cell c lies in
InHouseOf(kind, c) ==
  {o \in Cells : CASE kind = "row" -> getRow(o) = getRow(c)
                   [] kind = "column" -> getCol(o) = getCol(c)
                   [] kind = "block" -> getBlock(o) = getBlock(c)}

\* The reports validate() owes: one for every cell and house kind such that
\* another cell of that house of the cell holds the digit of the cell
OwedReports(v) ==
  {[cell |-> c, house |-> kind, digit |-> v[c]] :
     <<c, kind>> \in {ck \in Cells \X {"row", "column", "block"} :
                        /\ v[ck[1]] # 0
                        /\ \E o \in InHouseOf(ck[2], ck[1]) \ {ck[1]} :
                              v[o] = v[ck[1]]}}

\* C9: validate() returns every owed report exactly once and no other; a
\* digit repeated in a row only gives reports of kind row only; the result
\* is empty iff no house holds a digit twice.
C9_ValidateReports ==
  lastOp = "validate" =>
     /\ {result[i] : i \in 1 .. Len(result)} = OwedReports(val)
     /\ Len(result) = Cardinality(OwedReports(val))
     /\ \A kind \in {"row", "column", "block"} :
           (\E i \in 1 .. Len(result) : result[i].house = kind) <=>
           (\E a \in Cells, b \in Cells :
               a # b /\ val[a] # 0 /\ val[a] = val[b] /\ b \in InHouseOf(kind, a))
     /\ result = << >> <=> ~ \E a \in Cells, b \in Cells :
                                SharesHouse(a, b) /\ val[a] # 0 /\ val[a] = val[b]

\* validate() has run on a grid with a digit twice in a row and in no
\* column or block, and has returned two reports
C9_Witness ==
  /\ lastOp = "validate"
  /\ Len(result) = 2
  /\ \A i \in 1 .. Len(result) : result[i].house = "row"
  /\ result[1].cell # result[2].cell

----------------------------------------------------------------------------
(* Actions of a Combination generator *)

\* The source sequences given to the constructor: distinct elements
Source(length) == [i \in 1 .. length |-> 10 + i]

\* The generator as the record of its fields
generator ==
  [n |-> n, k |-> k, pointers |-> pointers,
   numberOfCombinations |-> numberOfCombinations]

\* new Combination(n, k): the parameter properties n and k are assigned
\* before the range check throws
Construct ==
  /\ combState = "new"
  /\ \E length \in 0 .. MaxN, size \in (-1) .. (MaxN + 1) :
       IF constructorThrows(Source(length), size)
       THEN /\ n' = Source(length)
            /\ k' = size
            /\ combState' = "RangeError"
            /\ UNCHANGED <<pointers, numberOfCombinations>>
       ELSE LET c == newCombination(Source(length), size)
            IN /\ n' = c.n
               /\ k' = c.k
               /\ pointers' = c.pointers
               /\ numberOfCombinations' = c.numberOfCombinations
               /\ combState' = "ready"
  /\ UNCHANGED <<yielded, thrown>>
  /\ UNCHANGED <<val, candidates, solvedCandidates, lastOp, result, log, steps>>
  /\ UNCHANGED solverVars
  /\ UNCHANGED viewVars

\* next(): returns the combination the pointers designate and advances, or
\* throws an Error when hasNext() is false; the generator stays in use
\* after the Error
CombinationNext ==
  /\ combState \in {"ready", "Exhausted"}
  /\ thrown < MaxThrows
  /\ IF hasNext(generator)
     THEN LET c == next(generator)
          IN /\ yielded' = Append(yielded, currentCombination(generator))
             /\ pointers' = c.pointers
             /\ numberOfCombinations' = c.numberOfCombinations
             /\ UNCHANGED <<combState, thrown>>
     ELSE /\ combState' = "Exhausted"
          /\ thrown' = thrown + 1
          /\ UNCHANGED <<yielded, pointers, numberOfCombinations>>
  /\ UNCHANGED <<n, k>>
  /\ UNCHANGED <<val, candidates, solvedCandidates, lastOp, result, log, steps>>
  /\ UNCHANGED solverVars
  /\ UNCHANGED viewVars

CombNext ==
  \/ Construct
  \/ CombinationNext

CombSpec == Init /\ [][CombNext]_vars

----------------------------------------------------------------------------
(* Properties of the Combination generator *)

\* C(a, b) by Pascal's rule
RECURSIVE Binomial(_, _)
Binomial(a, b) ==
  IF b = 0 THEN 1
  ELSE IF a = 0 THEN 0
  ELSE Binomial(a - 1, b - 1) + Binomial(a - 1, b)

\* The position (from 0) in the source of an element of it
IndexOf(element) == CHOOSE i \in 0 .. (Len(n) - 1) : n[i + 1] = element

\* The index tuple of a combination of elements of the source
IndexTuple(combination) ==
  [i \in 1 .. Len(combination) |-> IndexOf(combination[i])]

\* Index tuple a comes before index tuple b of the same length
LexLess(a, b) ==
  \E i \in 1 .. Len(a) :
     /\ a[i] < b[i]
     /\ \A j \in 1 .. (i - 1) : a[j] = b[j]

\* C10: for n distinct elements and 0 <= k <= n, the calls of next() made
\* while hasNext() holds return C(n, k) combinations: each a selection of k
\* elements in source order, the first one that of indices 0..k-1, each
\* after the first later in lexicographic order of the index tuples than
\* its predecessor (so all are distinct); k = 0 gives one empty combination.
C10_AllCombinationsInOrder ==
  combState \in {"ready", "Exhausted"} =>
     /\ \A i \in 1 .. Len(yielded) :
           /\ Len(yielded[i]) = k
           /\ \A j \in 1 .. k : \E x \in 1 .. Len(n) : n[x] = yielded[i][j]
           /\ \A j \in 1 .. (k - 1) :
                 IndexTuple(yielded[i])[j] < IndexTuple(yielded[i])[j + 1]
     /\ Len(yielded) > 0 => IndexTuple(yielded[1]) = [j \in 1 .. k |-> j - 1]
     /\ \A i \in 1 .. (Len(yielded) - 1) :
           LexLess(IndexTuple(yielded[i]), IndexTuple(yielded[i + 1]))
     /\ hasNext(generator) <=> Len(yielded) < Binomial(Len(n), k)
     /\ ~ hasNext(generator) => Len(yielded) = Binomial(Len(n), k)
     /\ (k = 0 /\ ~ hasNext(generator)) => yielded = << << >> >>

\* The six combinations of two out of four elements have been returned
C10_Witness ==
  /\ combState = "ready"
  /\ ~ hasNext(generator)
  /\ Len(n) = 4
  /\ k = 2
  /\ Len(yielded) = 6

\* The last combination has been returned: as many as C(n, k)
LastReturned ==
  /\ combState \in {"ready", "Exhausted"}
  /\ Len(yielded) >= Binomial(Len(n), k)

\* C11: once the generator has returned its last combination hasNext() is
\* false and stays false, every further call of next() throws an Error and
\* returns no combination, and nothing restarts the enumeration.
C11_ExhaustedForGood ==
  [][LastReturned =>
       /\ ~ hasNext(generator)
       /\ yielded' = yielded
       /\ pointers' = pointers
       /\ numberOfCombinations' = numberOfCombinations
       /\ n' = n /\ k' = k
       /\ combState' = "Exhausted"
       /\ thrown' = thrown + 1]_vars

\* next() has thrown twice on a generator that had returned its three
\* combinations of two out of three elements
C11_Witness ==
  /\ combState = "Exhausted"
  /\ thrown = 2
  /\ Len(n) = 3
  /\ k = 2
  /\ Len(yielded) = 3
  /\ ~ hasNext(generator)

\* C12: the constructor throws for k > n.length and for k < 0, and then
\* there is no generator (nothing of it is set up, next() is never served);
\* for every k in 0 .. n.length it succeeds.
C12_ConstructorRange ==
  combState # "new" =>
     /\ combState = "RangeError" <=> (k > Len(n) \/ k < 0)
     /\ combState \in {"ready", "Exhausted"} <=> k \in 0 .. Len(n)
     /\ combState = "RangeError" =>
          /\ pointers = << >>
          /\ numberOfCombinations = 0
          /\ yielded = << >>
          /\ thrown = 0

\* The constructor has thrown for a k above the length of a non-empty source
C12_Witness ==
  /\ combState = "RangeError"
  /\ Len(n) > 0
  /\ k = Len(n) + 1

----------------------------------------------------------------------------
(* Properties of the deduction techniques *)

\* The size the last findNakedValues or findHiddenValues was called with
LastSize == IF lastOp \in {"findNakedValues(1)", "findHiddenValues(1)"} THEN 1 ELSE 2

\* The unsolved cells of the house of a logged deduction that had, at that
\* moment, the candidate set of the cell at position p, among those at
\* positions from..9
SameCandidatesFrom(e, from) ==
  {e.cells[q] : q \in {q \in from .. Len(e.cells) :
                         val[e.cells[q]] = 0 /\ e.before[q] = e.before[e.p]}}

\* C13 as stated: a group reported by findNakedValues(s) is the set of all
\* unsolved cells of the house that have its candidate set at that moment:
\* s cells with the same s candidates.
C13_GroupIsAllCellsWithTheSet ==
  lastOp \in {"findNakedValues(1)", "findNakedValues(2)"} =>
     \A i \in 1 .. Len(log) :
        /\ {log[i].group[x] : x \in 1 .. Len(log[i].group)}
             = SameCandidatesFrom(log[i], 1)
        /\ Cardinality(SameCandidatesFrom(log[i], 1)) = LastSize
        /\ Cardinality(log[i].before[log[i].p]) = LastSize

\* C13 amended: a group reported by findNakedValues(s) is an unsolved cell
\* c with s candidates together with all unsolved cells after c in house
\* order that have the same candidate set, s cells in all; the returned
\* list is the groups one after the other.  Cells before c are not looked at.
C13_GroupIsCellsFromItsFirst ==
  lastOp \in {"findNakedValues(1)", "findNakedValues(2)"} =>
     /\ \A i \in 1 .. Len(log) :
           /\ {log[i].group[x] : x \in 1 .. Len(log[i].group)}
                = SameCandidatesFrom(log[i], log[i].p)
           /\ log[i].group[1] = log[i].cells[log[i].p]
           /\ Len(log[i].group) = LastSize
           /\ Cardinality(SameCandidatesFrom(log[i], log[i].p)) = LastSize
           /\ Cardinality(log[i].before[log[i].p]) = LastSize
           /\ SubSeq(result, (i - 1) * LastSize + 1, i * LastSize) = log[i].group
     /\ Len(result) = LastSize * Len(log)

\* findNakedValues has reported a group while an unsolved cell earlier in
\* the house had the candidate set of the group
C13_Witness ==
  /\ lastOp \in {"findNakedValues(1)", "findNakedValues(2)"}
  /\ \E i \in 1 .. Len(log) :
        SameCandidatesFrom(log[i], 1) # SameCandidatesFrom(log[i], log[i].p)

\* The set of cells of a returned list
CellsOf(list) == {list[i] : i \in 1 .. Len(list)}

\* findNakedValues(1) called again, with no edit in between
NakedSinglesAgain == findNakedValues(val, candidates, solvedCandidates, 1)

PositionIn(e, cell) == CHOOSE q \in 1 .. Len(e.cells) : e.cells[q] = cell

\* The returned list is the groups of the log, one after the other, each
\* of the size the technique was called with
ResultIsTheGroups ==
  /\ Len(result) = LastSize * Len(log)
  /\ \A i \in 1 .. Len(log) :
        SubSeq(result, (i - 1) * LastSize + 1, i * LastSize) = log[i].group

\* C15: findHiddenValues(s) restricts and reports a group for a combination
\* in a house only when, at that moment, the group is exactly s unsolved
\* cells of the house that each have all s digits of the combination as
\* candidates, and no unsolved cell of the house outside the group has a
\* digit of the combination as a candidate.
C15_HiddenGroupIsExclusive ==
  lastOp \in {"findHiddenValues(1)", "findHiddenValues(2)"} =>
     /\ ResultIsTheGroups
     /\ \A i \in 1 .. Len(log) :
           LET e == log[i]
               group == CellsOf(e.group)
               digits == CellsOf(e.digits)
           IN /\ Cardinality(group) = LastSize
              /\ Cardinality(digits) = LastSize
              /\ group \subseteq CellsOf(e.cells)
              /\ \A cell \in group :
                    val[cell] = 0 /\ digits \subseteq e.before[PositionIn(e, cell)]
              /\ \A q \in 1 .. Len(e.cells) :
                    (e.cells[q] \notin group /\ val[e.cells[q]] = 0) =>
                       e.before[q] \cap digits = {}

\* findHiddenValues has reported a cell for a digit the cell did not have
\* as a candidate at that moment
C15_Witness ==
  /\ lastOp \in {"findHiddenValues(1)", "findHiddenValues(2)"}
  /\ \E i \in 1 .. Len(log) :
        \E cell \in CellsOf(log[i].group) :
           ~ (CellsOf(log[i].digits) \subseteq log[i].before[PositionIn(log[i], cell)])

\* C16: when findHiddenValues(s) returns, the candidates of every cell it
\* reported are exactly the s digits of the combination recorded as the
\* solvedCandidates of the cell; no reported cell has no candidate.
C16_ReportedCellsHoldTheCombination ==
  lastOp \in {"findHiddenValues(1)", "findHiddenValues(2)"} =>
     \A i \in 1 .. Len(result) :
        /\ CandSet(candidates[result[i]]) = CellsOf(solvedCandidates[result[i]])
        /\ Cardinality(CandSet(candidates[result[i]])) = LastSize

\* findHiddenValues has returned a cell that it left without a candidate
C16_Witness ==
  /\ lastOp \in {"findHiddenValues(1)", "findHiddenValues(2)"}
  /\ \E i \in 1 .. Len(result) :
        /\ val[result[i]] = 0
        /\ CandSet(candidates[result[i]]) = {}
        /\ solvedCandidates[result[i]] # << >>

\* The three cells of a logged pointing pass are a segment of three
\* consecutive cells of the row or of the column of cell x, inside the block
\* of the pass
SegmentOfHouseOf(e, x) ==
  /\ Len(e.three) = 3
  /\ \E b \in 0 .. Size - 1 :
        e.block = blockCells(b) /\ Range(e.three) \subseteq Range(blockCells(b))
  /\ \E third \in 0 .. 2 :
        \/ e.three = SubSeq(rowCells(getRow(x)), third * 3 + 1, third * 3 + 3)
        \/ e.three = SubSeq(colCells(getCol(x)), third * 3 + 1, third * 3 + 3)

\* The logged pointing pass e accounts for the removal of digit d from
\* cell x, by the candidates as they were when the pass was made
PointedAt(e, x, d) ==
  /\ e.digit = d
  /\ val[x] = 0
  /\ x \in Range(e.cells)
  /\ x \notin Range(e.three)
  /\ SegmentOfHouseOf(e, x)
  /\ d \in e.before[PositionIn(e, x)]
  /\ d \notin e.after[PositionIn(e, x)]
  /\ \E q \in 1 .. 3 :
        val[e.three[q]] = 0 /\ d \in e.before[PositionIn(e, e.three[q])]
  /\ \A q \in 1 .. Len(e.block) :
        (e.block[q] \notin Range(e.three) /\ val[e.block[q]] = 0) =>
           d \notin e.inBlockBefore[q]

\* C17: beyond the removals of its initial updatePencilMarks,
\* findPointingValues removes digit d from cell x only if x is unsolved and
\* some three-cell segment T of the row or column of x, inside one block B
\* and not containing x, has d as a candidate of an unsolved cell of T
\* while no unsolved cell of B outside T has d as a candidate at that
\* moment; no pass removes a candidate from a cell of its own T.
C17_PointingRemovesOnlyPointedDigits ==
  [][(lastOp' = "findPointingValues" /\ steps' = steps + 1) =>
       LET updated == updatePencilMarks(val, candidates)
       IN /\ Evaluated(updated)
          /\ \A x \in Cells : \A d \in 1 .. Size :
                (/\ isCandidate(updated[x], d)
                 /\ ~ isCandidate(candidates'[x], d)) =>
                   \E i \in 1 .. Len(log') : PointedAt(log'[i], x, d)
          /\ \A i \in 1 .. Len(log') : \A q \in 1 .. Len(log'[i].cells) :
                log'[i].cells[q] \in Range(log'[i].three) =>
                   log'[i].after[q] = log'[i].before[q]]_vars

\* findPointingValues has removed a digit from a cell, beyond what its
\* updatePencilMarks removes: the cell has no value, the digit is in no
\* house of the cell, and the cell no longer has it as a candidate
C17_Witness ==
  /\ lastOp = "findPointingValues"
  /\ log # << >>
  /\ \E x \in Cells : \E i \in 1 .. Len(log) :
        /\ PointedAt(log[i], x, log[i].digit)
        /\ ~ isCandidate(candidates[x], log[i].digit)
        /\ \A c \in Cells : SharesHouse(c, x) => val[c] # log[i].digit

\* C18: findPointingValues returns the cells it affected: whenever the
\* call removes a candidate digit from some cell, the returned list is not
\* empty and contains every cell from which a candidate was removed.
C18_PointingReturnsAffectedCells ==
  [][(lastOp' = "findPointingValues" /\ steps' = steps + 1) =>
       \A x \in Cells :
          CandSet(candidates'[x]) # CandSet(candidates[x]) =>
             result' # << >> /\ x \in Range(result')]_vars

\* findPointingValues has removed a pointed digit from a cell without a
\* value, and has returned a list without that cell
C18_Witness ==
  /\ lastOp = "findPointingValues"
  /\ \E i \in 1 .. Len(log) : \E q \in 1 .. Len(log[i].cells) :
        /\ val[log[i].cells[q]] = 0
        /\ log[i].after[q] # log[i].before[q]
        /\ log[i].digit \notin CandSet(candidates[log[i].cells[q]])
        /\ log[i].cells[q] \notin Range(result)

\* C19: after resetPencilMarks every one of the 81 cells has the candidate
\* set {1..9}, whatever its value and its candidates were before, and no
\* cell has changed its value.
C19_ResetGivesAllCandidates ==
  [][(lastOp' = "resetPencilMarks" /\ steps' = steps + 1) =>
       /\ \A cell \in Cells : CandSet(candidates'[cell]) = 1 .. Size
       /\ \A cell \in Cells : getNumberOfCandidates(candidates'[cell]) = Size
       /\ val' = val]_vars

\* resetPencilMarks has been called after a technique that reported cells
\* and so left cells, with and without a value, short of candidates; all
\* the cells have the nine candidates again
C19_Witness ==
  /\ lastOp = "resetPencilMarks"
  /\ \E cell \in Cells : val[cell] = 0 /\ solvedCandidates[cell] # << >>
  /\ \E cell \in Cells : val[cell] # 0 /\ CandSet(candidates[cell]) = 1 .. Size
  /\ \A cell \in Cells : CandSet(candidates[cell]) = 1 .. Size

\* The position in its block of the cell of row r and column c
PositionInBlock(r, c) == (r % 3) * 3 + (c % 3)

\* Element [r][c] of the row model, [c][r] of the column model and
\* [floor(r/3)*3 + floor(c/3)][(r mod 3)*3 + (c mod 3)] of the block model
\* are one cell, the one constructed with row r, column c and that block
SameCellInTheThreeViews ==
  \A r \in Idx : \A c \in Idx :
     /\ colModel(c, r) = rowModel(r, c)
     /\ blockModel((r \div 3) * 3 + (c \div 3), PositionInBlock(r, c)) = rowModel(r, c)
     /\ getRow(rowModel(r, c)) = r
     /\ getCol(rowModel(r, c)) = c
     /\ getBlock(rowModel(r, c)) = (r \div 3) * 3 + (c \div 3)

\* Every cell is in one row, one column and one block, and the 27 houses
\* of forEachHouse have 9 different cells each
HousesPartitionTheCells ==
  /\ \A cell \in Cells :
        /\ Cardinality({h \in Idx : cell \in Range(rowCells(h))}) = 1
        /\ Cardinality({h \in Idx : cell \in Range(colCells(h))}) = 1
        /\ Cardinality({h \in Idx : cell \in Range(blockCells(h))}) = 1
  /\ \A j \in 1 .. 3 * Size :
        /\ Cardinality(Range(HouseCells(j))) = Size
        /\ Range(HouseCells(j)) \subseteq Cells
  /\ Cardinality({Range(HouseCells(j)) : j \in 1 .. 3 * Size}) = 3 * Size

\* C20: for all r, c in 0..8 the row view element [r][c], the column view
\* element [c][r] and the block view element
\* [floor(r/3)*3 + floor(c/3)][(r mod 3)*3 + (c mod 3)] are the same cell,
\* so the value and the candidates read through the three views are the
\* same after every operation; every cell is in exactly one row, one column
\* and one block, and each of the 27 houses has 9 distinct cells.
C20_ViewsShareTheCells ==
  /\ SameCellInTheThreeViews
  /\ HousesPartitionTheCells
  /\ \A r \in Idx : \A c \in Idx :
        LET b == (r \div 3) * 3 + (c \div 3)
        IN /\ val[colModel(c, r)] = val[rowModel(r, c)]
           /\ val[blockModel(b, PositionInBlock(r, c))] = val[rowModel(r, c)]
           /\ candidates[colModel(c, r)] = candidates[rowModel(r, c)]
           /\ candidates[blockModel(b, PositionInBlock(r, c))] = candidates[rowModel(r, c)]

\* A value entered with setCellValue(row, col, val), through the row model,
\* is read through the column model and the block model, and an update made
\* through the three models has since removed it from the candidates of a
\* cell of the same block in another row and column
C20_Witness ==
  \E cell \in EditCells :
     LET r == getRow(cell)
         c == getCol(cell)
     IN /\ val[rowModel(r, c)] # 0
        /\ val[rowModel(r, c)] # Entered[cell]
        /\ val[colModel(c, r)] = val[rowModel(r, c)]
        /\ val[blockModel(getBlock(cell), PositionInBlock(r, c))] = val[rowModel(r, c)]
        /\ \E i \in Idx :
              LET other == blockModel(getBlock(cell), i)
              IN /\ getRow(other) # r
                 /\ getCol(other) # c
                 /\ val[other] = 0
                 /\ ~ isCandidate(candidates[other], val[cell])
                 /\ \A p \in Cells : (SharesHouse(p, other) /\ p # cell) => val[p] # val[cell]

----------------------------------------------------------------------------
(* The example puzzle, end to end                                          *)

\* The call of solve() on the example puzzle has ended
ExampleDone == saved = example /\ solveState \in {"Solved", "Failed"}

\* C21 as stated: loading the example puzzle and calling solve() ends in
\* Solved, solve() returns 53 newly assigned cells, and a following
\* validate() on the completed board returns no reports.
C21_ExampleSolvedWith53Cells ==
  ExampleDone =>
     /\ solveState = "Solved"
     /\ lastOp = "solve" => Len(result) = 53
     /\ lastOp = "validate" => result = << >>

\* The digits the search holds, in the order it placed them, followed by
\* 10 when the search is backtracking and then by zeros
SearchPath(v, cells, m) ==
  [i \in 1 .. (Size * Size + 1) |->
     IF i <= Len(cells) THEN v[cells[i]]
     ELSE IF i = Len(cells) + 1 /\ m = "backtrack" THEN 10 ELSE 0]

\* Path a comes before path b in the lexicographic order
PathBefore(a, b) ==
  \E i \in 1 .. (Size * Size + 1) :
     a[i] < b[i] /\ \A j \in 1 .. (i - 1) : a[j] = b[j]

\* Every step of a search that goes on moves the path forward in the
\* lexicographic order, of which there are finitely many: the search ends
SearchAdvances ==
  (solveState = "Searching" /\ solveState' = "Searching") =>
     PathBefore(SearchPath(val, stack, mode), SearchPath(val', stack', mode'))

\* C21: the example handler sets 26 values on the cleared board; solve()
\* on it ends in Solved, never in Failed (every step of the search moves
\* its path forward, and the search holds at most 55 cells); it returns the
\* 55 cells it assigned, every one of them empty before, and a following
\* validate() returns no reports.
C21_ExampleSolvedWith55Cells ==
  /\ [](/\ Len(ExampleValues) = 26
        /\ (saved = example /\ solveState = "Searching") => Len(stack) <= 55
        /\ ExampleDone =>
              /\ solveState = "Solved"
              /\ Cardinality(unsolvedCells(saved)) = 55
              /\ validate(val) = << >>
              /\ lastOp = "solve" =>
                    /\ Len(result) = 55
                    /\ Range(result) = unsolvedCells(saved)
              /\ lastOp = "validate" => result = << >>)
  /\ [][saved = example => SearchAdvances]_vars

\* The example has been loaded and solved, with placements undone on the
\* way, and validate() has been called on the completed board
C21_Witness ==
  /\ saved = example
  /\ solveState = "Solved"
  /\ undone > 0
  /\ lastOp = "validate"
  /\ IsComplete(val)

----------------------------------------------------------------------------
(* Termination of solve()                                                  *)

\* C22: solve() terminates on every validator-clean board: a search that
\* is in Searching always eventually reaches Solved or Failed.
C22_SolveTerminates ==
  (solveState = "Searching" /\ Clean(saved)) ~> (solveState \in {"Solved", "Failed"})

\* A call on a clean board has ended after undoing placements, once in
\* Failed and, on another board, in Solved
C22_Witness ==
  /\ solveState \in {"Solved", "Failed"}
  /\ Clean(saved)
  /\ unsolvedCells(saved) # {}
  /\ undone > 1

----------------------------------------------------------------------------
(* The order of the search                                                 *)

\* The digits that no other cell of the row, column or block of the cell
\* holds now
Peers == [cell \in Cells |-> {p \in Cells : SharesHouse(p, cell)}]
LegalDigits(v, cell) == Digits \ {v[p] : p \in Peers[cell]}
LegalCount(v) == [cell \in Cells |-> Cardinality(LegalDigits(v, cell))]
Least(digits) == CHOOSE d \in digits : \A e \in digits : d <= e

\* The cell is unsolved, no unsolved cell has fewer legal digits, and none
\* before it in row-major order has as few
FewestAndFirst(v, count, cell) ==
  /\ v[cell] = 0
  /\ \A other \in Cells :
        v[other] = 0 =>
           \/ count[cell] < count[other]
           \/ count[cell] = count[other] /\ cell <= other

\* A step that selects: either a cell with the fewest legal digits, the
\* first of them, gets its least legal digit, or that cell has no legal
\* digit, nothing is placed and the search backtracks
SelectsFewestFirst(count) ==
  IF stack' # stack
  THEN /\ Len(stack') = Len(stack) + 1
       /\ SubSeq(stack', 1, Len(stack)) = stack
       /\ FewestAndFirst(val, count, top(stack'))
       /\ LegalDigits(val, top(stack')) # {}
       /\ val' = [val EXCEPT ![top(stack')] = Least(LegalDigits(val, top(stack')))]
       /\ mode' = "forward"
  ELSE /\ val' = val
       /\ mode' = "backtrack"
       /\ \E cell \in Cells : FewestAndFirst(val, count, cell) /\ count[cell] = 0

\* A step that backtracks: the digit of the cell assigned last has failed;
\* it is replaced by the next legal digit, in ascending order, or it is
\* removed and the cell before is backtracked to
TriesNextDigit(cell, later) ==
  IF later = {}
  THEN /\ val' = [val EXCEPT ![cell] = 0]
       /\ stack' = pop(stack)
       /\ mode' = "backtrack"
  ELSE /\ val' = [val EXCEPT ![cell] = Least(later)]
       /\ stack' = stack
       /\ mode' = "forward"

\* C23: at every step of the search, the cell assigned next is an unsolved
\* cell with the minimum number of legal digits (digits not now placed in
\* its row, column or block), the first such cell in row-major order; its
\* digits are tried in ascending order, a failed digit is undone before the
\* next is tried, and a selected cell without a legal digit makes the
\* search backtrack without placing anything.
C23_SearchOrder ==
  [][(solveState = "Searching" /\ solveState' = "Searching") =>
       /\ mode = "forward" => SelectsFewestFirst(LegalCount(val))
       /\ (mode = "backtrack" /\ stack # << >>) =>
             TriesNextDigit(top(stack),
                            {d \in LegalDigits(val, top(stack)) : d > val[top(stack)]})]_vars

\* The search on the example has undone a digit, tried the next one and is
\* selecting again, with several unsolved cells of different numbers of
\* legal digits to select from
C23_Witness ==
  /\ saved = example
  /\ solveState = "Searching"
  /\ mode = "forward"
  /\ undone > 1
  /\ stack # << >>
  /\ val[top(stack)] # Least(LegalDigits([val EXCEPT ![top(stack)] = 0], top(stack)))
  /\ \E a \in Cells, b \in Cells :
        val[a] = 0 /\ val[b] = 0 /\ LegalCount(val)[a] < LegalCount(val)[b]

----------------------------------------------------------------------------
(* solve() and the pencil marks                                            *)

\* The search as a function of the values alone: what it ends in, the
\* values it leaves and the cells it returns
RECURSIVE SearchOnValues(_, _, _)
SearchOnValues(v, cells, m) ==
  IF m = "forward"
  THEN IF \A c \in Cells : v[c] # 0
       THEN [state |-> "Solved", val |-> v, result |-> cells]
       ELSE LET count == LegalCount(v)
                cell == CHOOSE c \in Cells : FewestAndFirst(v, count, c)
                placed == [v EXCEPT ![cell] = Least(LegalDigits(v, cell))]
            IN IF count[cell] = 0
               THEN SearchOnValues(v, cells, "backtrack")
               ELSE IF Evaluated(placed)
                    THEN SearchOnValues(placed, Append(cells, cell), "forward")
                    ELSE FALSE
  ELSE IF cells = << >>
       THEN [state |-> "Failed", val |-> v, result |-> << >>]
       ELSE LET cell == top(cells)
                later == {d \in LegalDigits(v, cell) : d > v[cell]}
                undo == [v EXCEPT ![cell] = 0]
                retry == [v EXCEPT ![cell] = Least(later)]
            IN IF later = {}
               THEN IF Evaluated(undo)
                    THEN SearchOnValues(undo, pop(cells), "backtrack")
                    ELSE FALSE
               ELSE IF Evaluated(retry)
                    THEN SearchOnValues(retry, cells, "forward")
                    ELSE FALSE

----------------------------------------------------------------------------
(* What findNakedValues removes                                            *)

\* The logged group e accounts for cell x having lost digit d: x is a cell
\* of the house of the group, not of the group, and d is a digit of it
RemovedByGroup(e, x, d) ==
  /\ x \in Range(e.cells)
  /\ x \notin Range(e.group)
  /\ d \in Range(e.digits)

\* The removal made for the logged group e: every cell of the house
\* outside the group loses the digits of the group and nothing else, and
\* the cells of the group keep their candidates
RemovalOfGroup(e) ==
  \A q \in 1 .. Len(e.cells) :
     IF e.cells[q] \in Range(e.group)
     THEN e.after[q] = e.before[q]
     ELSE e.after[q] = e.before[q] \ Range(e.digits)

\* C25: beyond the removals of its initial updatePencilMarks,
\* findNakedValues(s) removes a digit from the candidates of a cell only if
\* the cell is in a house for which a group with that digit was reported
\* and is not in that group; when a group is reported its digits are
\* removed from every other cell of the house, and that removal leaves the
\* candidates of the cells of the group as they are.
C25_NakedRemovals ==
  [][(lastOp' \in {"findNakedValues(1)", "findNakedValues(2)"} /\ steps' = steps + 1) =>
       LET updated == updatePencilMarks(val, candidates)
       IN /\ Evaluated(updated)
          /\ \A x \in Cells : \A d \in Digits :
                (isCandidate(updated[x], d) /\ ~ isCandidate(candidates'[x], d)) =>
                   \E i \in 1 .. Len(log') : RemovedByGroup(log'[i], x, d)
          /\ \A i \in 1 .. Len(log') :
                /\ RemovalOfGroup(log'[i])
                /\ SubSeq(result', (i - 1) * Len(log'[i].group) + 1,
                          i * Len(log'[i].group)) = log'[i].group
                /\ \A x \in Range(log'[i].cells) \ Range(log'[i].group) :
                      CandSet(candidates'[x]) \cap Range(log'[i].digits) = {}]_vars

\* findNakedValues has reported a pair and has removed a digit of the pair
\* from an unsolved cell of the house that is not of the pair
C25_Witness ==
  /\ lastOp = "findNakedValues(2)"
  /\ \E i \in 1 .. Len(log) : \E q \in 1 .. Len(log[i].cells) :
        /\ Len(log[i].group) = 2
        /\ log[i].cells[q] \notin Range(log[i].group)
        /\ val[log[i].cells[q]] = 0
        /\ log[i].before[q] \cap Range(log[i].digits) # {}
        /\ log[i].after[q] \cap Range(log[i].digits) = {}

-----------------------------------------------------------------------------
(* The pointers of a generator that has a next combination *)

\* The pointers are k indices into n, strictly increasing, the one at i no
\* further right than n.length - k + i
PointersInRange ==
  /\ DOMAIN pointers = 0 .. (k - 1)
  /\ \A i \in 0 .. (k - 2) : pointers[i] < pointers[i + 1]
  /\ \A i \in 0 .. (k - 1) : 0 <= pointers[i] /\ pointers[i] <= Len(n) - k + i

\* What a call of next() that returns has returned
ReturnedByThisCall == yielded'[Len(yielded')]

\* C26: in every reachable state of a generator in which hasNext() is true,
\* the pointers are strictly increasing with pointers[i] <= n.length - k + i
\* for every i in 0..k-1, the combination they designate has not been
\* returned before, and it is the combination the next call of next()
\* returns.
C26_PointersDesignateTheNext ==
  /\ [](hasNext(generator) =>
          /\ PointersInRange
          /\ \A i \in 1 .. Len(yielded) :
                yielded[i] # currentCombination(generator))
  /\ [][(hasNext(generator) /\ yielded' # yielded) =>
          /\ Len(yielded') = Len(yielded) + 1
          /\ ReturnedByThisCall = [i \in 1 .. k |-> n[pointers[i - 1] + 1]]
          /\ \A i \in 1 .. Len(yielded) : yielded[i] # ReturnedByThisCall]_vars

C26_Witness ==
  /\ combState = "ready"
  /\ hasNext(generator)
  /\ Len(n) = 5
  /\ k = 3
  /\ Len(yielded) = 3
  /\ pointers[0] = 0 /\ pointers[1] = 2 /\ pointers[2] = 3

-----------------------------------------------------------------------------
(* Soundness of the deductions *)

\* The valid completions of a board: the complete boards that agree with it
\* on every cell that has a value
RECURSIVE Completions(_)
Completions(v) ==
  IF \A cell \in Cells : v[cell] # 0
  THEN IF IsComplete(v) THEN {v} ELSE {}
  ELSE LET cell == CHOOSE c \in Cells :
                     v[c] = 0 /\ \A other \in Cells : v[other] = 0 => c <= other
       IN UNION {Completions([v EXCEPT ![cell] = digit]) :
                   digit \in LegalDigits(v, cell)}

\* Every unsolved cell has as a candidate the digit it holds in each of the
\* completions
KeepsCompletions(completions, v, cand) ==
  \A full \in completions : \A cell \in Cells :
     v[cell] = 0 => cand[cell][full[cell]] = full[cell]

\* No unsolved cell is without candidates
NoEmptyCandidateSet(v, cand) ==
  \A cell \in Cells : v[cell] = 0 => CandSet(cand[cell]) # {}

\* The calls that deduce from the pencil marks
DeductionCalls ==
  {"updatePencilMarks", "findNakedValues(1)", "findNakedValues(2)",
   "findHiddenValues(1)", "findHiddenValues(2)", "findPointingValues"}

\* The step is one of the deductions on a board that has a completion
DeductionOnCompletableBoard(completions) ==
  /\ steps' = steps + 1
  /\ lastOp' \in DeductionCalls
  /\ completions # {}

\* C27: deductions are sound: on a board that has at least one valid
\* completion, right after resetPencilMarks every unsolved cell has as a
\* candidate the digit it holds in each completion, and every
\* updatePencilMarks, findNakedValues(s), findHiddenValues(s) and
\* findPointingValues call made while that is so leaves it so; hence no
\* unsolved cell ends with an empty candidate set.
C27_DeductionsAreSound ==
  /\ [](lastOp \in {"init", "resetPencilMarks"} =>
          KeepsCompletions(Completions(val), val, candidates))
  /\ [][LET completions == Completions(val)
        IN (/\ DeductionOnCompletableBoard(completions)
            /\ KeepsCompletions(completions, val, candidates)) =>
              /\ val' = val
              /\ KeepsCompletions(completions, val', candidates')
              /\ NoEmptyCandidateSet(val', candidates')]_vars

\* A hidden pair has been found and restricted on the entered grid, which
\* has a completion, and every empty cell still has the digit of each
\* completion among its candidates
C27_Witness ==
  /\ lastOp = "findHiddenValues(2)"
  /\ log # << >>
  /\ val = Entered
  /\ \E cell \in Cells : val[cell] = 0 /\ Cardinality(CandSet(candidates[cell])) = 2
  /\ Completions(val) # {}
  /\ KeepsCompletions(Completions(val), val, candidates)
  /\ NoEmptyCandidateSet(val, candidates)

-----------------------------------------------------------------------------
(* The cells findNakedValues returns, when it returns *)

\* The cell is unsolved and has exactly LastSize candidates now
StillNaked(cell) ==
  /\ val[cell] = 0
  /\ Cardinality(CandSet(candidates[cell])) = LastSize

\* C28: on a validator-clean board every cell in the list returned by
\* findNakedValues(s) is unsolved and has exactly s candidates when the
\* call returns.
C28_ReturnedCellsAreNaked ==
  (lastOp \in {"findNakedValues(1)", "findNakedValues(2)"} /\ Clean(val)) =>
     \A i \in 1 .. Len(result) : StillNaked(result[i])

\* findNakedValues(1) has returned, on a board validate() has nothing to
\* report on, a cell that is left without any candidate
C28_Witness ==
  /\ lastOp = "findNakedValues(1)"
  /\ Clean(val)
  /\ \E i \in 1 .. Len(result) :
        val[result[i]] = 0 /\ CandSet(candidates[result[i]]) = {}

-----------------------------------------------------------------------------
(* What the calls leave alone *)

\* The calls of the engine that read the values and do not set them
ReadingCalls ==
  DeductionCalls \cup {"resetPencilMarks", "validate"}

\* C29: resetPencilMarks, updatePencilMarks, validate, findNakedValues(s),
\* findHiddenValues(s) and findPointingValues leave the value of every cell
\* unchanged, and validate also leaves every candidate set unchanged; a
\* step that changes a value is a setCellValue.
C29_ValuesChangeOnlyBySetValue ==
  [][/\ (steps' = steps + 1 /\ lastOp' \in ReadingCalls) =>
          \A cell \in Cells : val'[cell] = val[cell]
     /\ (steps' = steps + 1 /\ lastOp' = "validate") =>
          \A cell \in Cells : CandSet(candidates'[cell]) = CandSet(candidates[cell])
     /\ (\E cell \in Cells : val'[cell] # val[cell]) =>
          lastOp' = "setCellValue"]_vars

\* validate() has reported conflicts on a board that has been edited and
\* whose pencil marks a deduction has cut down
C29_Witness ==
  /\ lastOp = "validate"
  /\ steps = MaxSteps
  /\ val # Entered
  /\ \E cell \in Cells : val[cell] = 0 /\ CandSet(candidates[cell]) # Digits

-----------------------------------------------------------------------------
(* The selection of the view *)

\* C30: after any sequence of arrow keys, digit keys, number-button clicks
\* and cell clicks the selected position is on the board:
\* 0 <= currentRow <= 8 and 0 <= currentCol <= 8, so that every later digit
\* entry addresses an existing cell.
C30_SelectionStaysOnBoard ==
  /\ currentRow \in 0 .. 8
  /\ currentCol \in 0 .. 8

\* A digit has been entered in the last cell of the board and the key
\* pressed after it has thrown
C30_Witness ==
  /\ currentRow = 9
  /\ currentCol = 0
  /\ lastOp = "TypeError"

====
